---- MODULE Spec2Model ----
(***************************************************************************)
(* Model of RetroArch's database_info.c (src/unnamed/part_000): the        *)
(* directory scan handle stepped by database_info_iterate, and the catalog *)
(* list built by database_info_list_new from a libretrodb cursor; and of   *)
(* the PS3 joypad driver (src/input/drivers_joypad/ps3_joypad.c) polled by *)
(* ps3_joypad_poll.                                                        *)
(***************************************************************************)
EXTENDS Integers, Sequences, FiniteSets, TLC

(***************************************************************************)
(* Bounds of the model.                                                    *)
(***************************************************************************)
MaxPaths == 2
MaxCalls == 5
MaxItems == 2
MaxPairs == 2
MAX_PADS == 2

(***************************************************************************)
(* Scan handle: database_info_handle_t and what a caller observes of each  *)
(* call of database_info_iterate.                                          *)
(***************************************************************************)
VARIABLES
    db,         \* the handle argument: "null", "nolist" (db->list == NULL), "ok"
    list,       \* db->list: the path entries, each a kind of PathKinds
    list_ptr,   \* db->list_ptr
    status,     \* db->status
    type,       \* db->type
    ret,        \* value returned by the last call of database_info_iterate
    exit,       \* the return statement the last call left by
    calls,      \* number of calls of database_info_iterate made
    skipped,    \* calls that returned because the current entry was absent
    finished,   \* "Scanning of directory finished." messages pushed
    oob,        \* the last call read db->list->elems[] at an index >= size
    bufs,       \* file content buffers obtained by read_file and not freed
    done_seen,  \* some earlier call left by the finish branch
    late_work,  \* a call after such a call went on to process a path
    msgs,       \* calls of rarch_main_msg_queue_push
    work        \* calls of read_file and zlib_parse_file

scanVars == <<db, list, list_ptr, status, type, ret, exit, calls, skipped,
              finished, oob, bufs, done_seen, late_work, msgs, work>>

(***************************************************************************)
(* Catalog build: the locals of database_info_list_new, the handles of the *)
(* database engine it drives, and the heap it allocates from.              *)
(***************************************************************************)
VARIABLES
    pc,                  \* position in database_info_list_new
    query,               \* the query argument: "NULL", "EMPTY" ("") or "TEXT"
    compiles,            \* calls of libretrodb_query_compile
    bound,               \* what the cursor was opened on: "none", "all", "query"
    dbh,                 \* libretrodb_t db: "unopened", "open", "closed"
    dbh_closes,          \* calls of libretrodb_close
    cur,                 \* libretrodb_cursor_t cur: "unopened", "open", "closed"
    cur_closes,          \* calls of libretrodb_cursor_close
    heap,                \* every block allocated: its kind and how often freed
    database_info_list,  \* pointer to the list container (0 is NULL)
    ll_list,             \* database_info_list->list
    ll_count,            \* database_info_list->count
    database_info,       \* pointer to the entry array (0 is NULL)
    arr,                 \* memory of the entry array block
    k,                   \* entries materialized
    item,                \* the item libretrodb_cursor_read_item stored last
    j,                   \* index of the for loop over item.map
    reads,               \* items the cursor has produced
    maps,                \* the map items among them, in cursor order
    result,              \* "none", "NULL" or "list" (database_info_list returned)
    exit_new,            \* the return path database_info_list_new left by
    q_error,             \* libretrodb_query_compile set error
    cur_opens,           \* calls of libretrodb_cursor_open
    free_calls           \* calls of free on a field of an entry

buildVars == <<pc, query, compiles, bound, dbh, dbh_closes, cur, cur_closes,
               heap, database_info_list, ll_list, ll_count, database_info, arr,
               k, item, j, reads, maps, result, exit_new, q_error, cur_opens,
               free_calls>>

(***************************************************************************)
(* PS3 joypad driver: its static arrays, what it writes outside them, and  *)
(* the position of ps3_joypad_poll in its loop over the ports.             *)
(***************************************************************************)
VARIABLES
    psl1ght,          \* the driver was built with __PSL1GHT__ defined
    pad_state,        \* pad_state[port]: the set of button ids whose bit is set
    analog_state,     \* analog_state[port][i][j]
    pads_connected,   \* pads_connected[port]
    lifecycle_state,  \* global->lifecycle_state: the set of bits that are set
    device_names,     \* settings->input.device_names[port]
    last_msg,         \* port named by the message pushed last, -1 if none
    port              \* the loop variable of ps3_joypad_poll; MAX_PADS after the loop

padVars == <<psl1ght, pad_state, analog_state, pads_connected,
             lifecycle_state, device_names, last_msg, port>>

vars == <<scanVars, buildVars, padVars>>

\* enum database_status / enum database_type as used by the handle
DATABASE_STATUS_ITERATE == "ITERATE"
DATABASE_STATUS_FREE == "FREE"
DATABASE_TYPE_NONE == "NONE"
DATABASE_TYPE_RDL_WRITE == "RDL_WRITE"

\* return values of database_info_iterate
RET_CONTINUE == 0
RET_ERROR == -1

(***************************************************************************)
(* A path entry is absent (elems[i].data == NULL) or names a file; what    *)
(* the file system answers for the file is part of the entry's kind:       *)
(*   zip        extension "zip", zlib_parse_file succeeds                  *)
(*   badzip     extension "zip", zlib_parse_file fails                     *)
(*   file       read_file returns 1 with ret > 0                           *)
(*   empty      read_file returns 1 with ret = 0 (a buffer was allocated)  *)
(*   unreadable read_file does not return 1                                *)
(***************************************************************************)
PathKinds == {"absent", "zip", "badzip", "file", "empty", "unreadable"}

\* what an out-of-range read of elems[] can yield: a null or a non-null pointer
StrayKinds == {"absent", "zip", "file", "unreadable"}

\* the sequences over S of length at most n
SeqsUpTo(S, n) == UNION {[1..m -> S] : m \in 0..n}

\* database_info_init: list from dir_list_new, list_ptr 0, status ITERATE
database_info_init ==
    /\ db \in {"null", "nolist", "ok"}
    /\ list \in (IF db = "ok" THEN SeqsUpTo(PathKinds, MaxPaths) ELSE {<<>>})
    /\ list_ptr = 0
    /\ status = DATABASE_STATUS_ITERATE
    /\ type \in {DATABASE_TYPE_NONE, DATABASE_TYPE_RDL_WRITE}
    /\ ret = RET_CONTINUE
    /\ exit = "none"
    /\ calls = 0
    /\ skipped = 0
    /\ finished = 0
    /\ oob = FALSE
    /\ bufs = 0
    /\ done_seen = FALSE
    /\ late_work = FALSE
    /\ msgs = 0
    /\ work = 0

\* read_file(name, &ret_buf, &ret): what it can hand back for a file of the
\* given kind.  read_from is its return value, ret the length, buf whether
\* ret_buf points to an allocated buffer.  A read that fails hands back no
\* buffer; a read that succeeds with data hands back the buffer holding it;
\* a read that succeeds with zero bytes may or may not have allocated one.
read_file(kind) ==
    IF kind = "unreadable" THEN {[read_from |-> 0, ret |-> -1, buf |-> 0]}
    ELSE IF kind = "empty" THEN
        {[read_from |-> 1, ret |-> 0, buf |-> b] : b \in {0, 1}}
    ELSE {[read_from |-> 1, ret |-> 1, buf |-> 1]}

\* to_continue with the comparison off by one
to_continue_inclusive(ptr, size) == ptr <= size

\* bool to_continue = (db->list_ptr < db->list->size);
to_continue(ptr, size) == ptr < size

\* name = db->list->elems[db->list_ptr].data, read before any bounds check:
\* inside the list it is the entry, outside it is whatever memory holds
NamesAt(ptr) ==
    IF ptr < Len(list) THEN {list[ptr + 1]} ELSE StrayKinds

\* bookkeeping common to every call
Called(name, x, r) ==
    /\ calls' = calls + 1
    /\ ret' = r
    /\ exit' = x
    /\ oob' = (db = "ok" /\ list_ptr >= Len(list))
    /\ skipped' = IF x = "absent" THEN skipped + 1 ELSE skipped
    /\ done_seen' = (done_seen \/ x = "finish")
    /\ late_work' = (late_work \/ (done_seen /\ x \in {"advance", "readfail", "empty"}))
    /\ msgs' = IF x = "finish" \/ (x = "advance" /\ name = "file")
                THEN msgs + 1 ELSE msgs
    /\ work' = IF x \in {"advance", "readfail", "empty"} THEN work + 1 ELSE work

\* the null check answering CONTINUE
IteratePreconditionContinue ==
    /\ calls < MaxCalls
    /\ db # "ok"
    /\ Called("absent", "precondition", RET_CONTINUE)
    /\ UNCHANGED <<db, list, list_ptr, status, type, finished, bufs>>
    /\ UNCHANGED buildVars
    /\ UNCHANGED padVars

\* if (!db || !db->list) return -1;
IteratePrecondition ==
    /\ calls < MaxCalls
    /\ db # "ok"
    /\ Called("absent", "precondition", RET_ERROR)
    /\ UNCHANGED <<db, list, list_ptr, status, type, finished, bufs>>
    /\ UNCHANGED buildVars
    /\ UNCHANGED padVars

\* the absent entry stepped over
IterateAbsentAdvancing ==
    /\ calls < MaxCalls
    /\ db = "ok"
    /\ "absent" \in NamesAt(list_ptr)
    /\ Called("absent", "absent", RET_CONTINUE)
    /\ list_ptr' = list_ptr + 1
    /\ UNCHANGED <<db, list, status, type, finished, bufs>>
    /\ UNCHANGED buildVars
    /\ UNCHANGED padVars

\* if (!name) return 0;
IterateAbsent ==
    /\ calls < MaxCalls
    /\ db = "ok"
    /\ "absent" \in NamesAt(list_ptr)
    /\ Called("absent", "absent", RET_CONTINUE)
    /\ UNCHANGED <<db, list, list_ptr, status, type, finished, bufs>>
    /\ UNCHANGED buildVars
    /\ UNCHANGED padVars

\* case DATABASE_TYPE_NONE: break;  ... return 0;
IterateNone ==
    /\ calls < MaxCalls
    /\ db = "ok"
    /\ type = DATABASE_TYPE_NONE
    /\ \E name \in NamesAt(list_ptr) \ {"absent"} :
          Called(name, "none", RET_CONTINUE)
    /\ UNCHANGED <<db, list, list_ptr, status, type, finished, bufs>>
    /\ UNCHANGED buildVars
    /\ UNCHANGED padVars

\* database_info_iterate_rdl_write, !to_continue: push the message, status
\* FREE, return -1, which database_info_iterate turns into return -1
IterateFinish ==
    /\ calls < MaxCalls
    /\ db = "ok"
    /\ type = DATABASE_TYPE_RDL_WRITE
    /\ ~to_continue(list_ptr, Len(list))
    /\ \E name \in NamesAt(list_ptr) \ {"absent"} :
          Called(name, "finish", RET_ERROR)
    /\ finished' = finished + 1
    /\ status' = DATABASE_STATUS_FREE
    /\ UNCHANGED <<db, list, list_ptr, type, bufs>>
    /\ UNCHANGED buildVars
    /\ UNCHANGED padVars

\* database_info_iterate_rdl_write on a "zip" name, or on a plain file that
\* read_file returned with ret > 0: the buffer is freed, db->list_ptr++
IterateAdvance ==
    /\ calls < MaxCalls
    /\ db = "ok"
    /\ type = DATABASE_TYPE_RDL_WRITE
    /\ to_continue(list_ptr, Len(list))
    /\ \E name \in NamesAt(list_ptr) \cap {"zip", "badzip", "file"} :
          /\ name = "file" =>
                \E r \in read_file(name) : r.read_from = 1 /\ r.ret > 0
          /\ Called(name, "advance", RET_CONTINUE)
    /\ list_ptr' = list_ptr + 1
    /\ UNCHANGED <<db, list, status, type, finished, bufs>>
    /\ UNCHANGED buildVars
    /\ UNCHANGED padVars

\* if (read_from != 1) return 0;
IterateReadFail ==
    /\ calls < MaxCalls
    /\ db = "ok"
    /\ type = DATABASE_TYPE_RDL_WRITE
    /\ to_continue(list_ptr, Len(list))
    /\ "unreadable" \in NamesAt(list_ptr)
    /\ \E r \in read_file("unreadable") : r.read_from # 1
    /\ Called("unreadable", "readfail", RET_CONTINUE)
    /\ UNCHANGED <<db, list, list_ptr, status, type, finished, bufs>>
    /\ UNCHANGED buildVars
    /\ UNCHANGED padVars

\* if (ret <= 0) return 0;  (ret_buf is not freed on this path)
IterateReadEmpty ==
    /\ calls < MaxCalls
    /\ db = "ok"
    /\ type = DATABASE_TYPE_RDL_WRITE
    /\ to_continue(list_ptr, Len(list))
    /\ "empty" \in NamesAt(list_ptr)
    /\ Called("empty", "empty", RET_CONTINUE)
    /\ \E r \in read_file("empty") :
          /\ r.read_from = 1
          /\ r.ret <= 0
          /\ bufs' = bufs + r.buf
    /\ UNCHANGED <<db, list, list_ptr, status, type, finished>>
    /\ UNCHANGED buildVars
    /\ UNCHANGED padVars

\* one call of database_info_iterate
database_info_iterate ==
    \/ IteratePrecondition
    \/ IterateAbsent
    \/ IterateNone
    \/ IterateFinish
    \/ IterateAdvance
    \/ IterateReadFail
    \/ IterateReadEmpty


(***************************************************************************)
(* Heap and strings.  A pointer is the index of its block in heap, 0 is    *)
(* NULL.  A string field holds the pointer and the bytes of its buffer.    *)
(***************************************************************************)
NUL == "NUL"

\* what freshly allocated (uninitialised) memory can hold in a byte
StrayBytes == {NUL, "?"}

NULLSTR == [ptr |-> 0, buf |-> <<>>]

Alloc(h, kind) == Append(h, [kind |-> kind, frees |-> 0])

\* free(p); free(NULL) does nothing
Free(h, p) ==
    IF p \in 1..Len(h) THEN [h EXCEPT ![p].frees = @ + 1] ELSE h

\* strdup(s): a new block holding s and its terminator
strdup(h, s) == [ptr |-> Len(h) + 1, buf |-> Append(s, NUL)]

HexDigits == <<"0", "1", "2", "3", "4", "5", "6", "7",
               "8", "9", "A", "B", "C", "D", "E", "F">>

\* snprintf(ret+i*2, 3, "%02X", data[i]): two digits and a terminator
RECURSIVE hex_loop(_, _, _)
hex_loop(buf, data, i) ==
    IF i > Len(data) THEN buf
    ELSE hex_loop([buf EXCEPT ![2 * i - 1] = HexDigits[(data[i] \div 16) + 1],
                              ![2 * i]     = HexDigits[(data[i] % 16) + 1],
                              ![2 * i + 1] = NUL],
                  data, i + 1)

\* bin_to_hex_alloc(data, len): malloc(len * 2 + 1), whose bytes start as
\* the stray byte u, then the loop over the len bytes
bin_to_hex_alloc(h, data, u) ==
    [ptr |-> Len(h) + 1,
     buf |-> hex_loop([c \in 1..(2 * Len(data) + 1) |-> u], data, 1)]

(***************************************************************************)
(* database_info_t and the keys database_info_list_new recognizes.         *)
(***************************************************************************)
StrFields == {"name", "description", "publisher", "developer", "origin",
              "franchise", "bbfc_rating", "elspa_rating", "esrb_rating",
              "pegi_rating", "cero_rating", "edge_magazine_review",
              "enhancement_hw"}
HexFields == {"crc32", "sha1", "md5"}
UintFields == {"famitsu_magazine_rating", "edge_magazine_rating",
               "edge_magazine_issue", "max_users", "releasemonth",
               "releaseyear"}
FlagFields == {"analog_supported", "rumble_supported"}

\* the field each strcmp of the for loop assigns (lines 262-330)
KeyField ==
    [name |-> "name", description |-> "description", publisher |-> "publisher",
     developer |-> "developer", origin |-> "origin", franchise |-> "franchise",
     bbfc_rating |-> "bbfc_rating", esrb_rating |-> "esrb_rating",
     elspa_rating |-> "elspa_rating", cero_rating |-> "cero_rating",
     pegi_rating |-> "pegi_rating", enhancement_hw |-> "enhancement_hw",
     edge_review |-> "edge_magazine_review",
     edge_rating |-> "edge_magazine_rating",
     edge_issue |-> "edge_magazine_issue",
     famitsu_rating |-> "famitsu_magazine_rating", users |-> "max_users",
     releasemonth |-> "releasemonth", releaseyear |-> "releaseyear",
     rumble |-> "rumble_supported", analog |-> "analog_supported",
     crc |-> "crc32", sha1 |-> "sha1", md5 |-> "md5"]

Keys == DOMAIN KeyField
StrKeys == {key \in Keys : KeyField[key] \in StrFields}
HexKeys == {key \in Keys : KeyField[key] \in HexFields}
UintKeys == {key \in Keys : KeyField[key] \in UintFields \cup FlagFields}

\* the defaults with the assignment of rumble_supported left out
SetDefaultsButRumble(slot) ==
    [slot EXCEPT !.name = NULLSTR, !.description = NULLSTR,
                 !.publisher = NULLSTR, !.developer = NULLSTR,
                 !.origin = NULLSTR, !.franchise = NULLSTR,
                 !.bbfc_rating = NULLSTR, !.elspa_rating = NULLSTR,
                 !.esrb_rating = NULLSTR, !.pegi_rating = NULLSTR,
                 !.cero_rating = NULLSTR, !.edge_magazine_review = NULLSTR,
                 !.enhancement_hw = NULLSTR, !.crc32 = NULLSTR,
                 !.sha1 = NULLSTR, !.md5 = NULLSTR,
                 !.famitsu_magazine_rating = 0, !.edge_magazine_rating = 0,
                 !.edge_magazine_issue = 0, !.max_users = 0,
                 !.releasemonth = 0, !.releaseyear = 0,
                 !.analog_supported = -1]

\* lines 232-255: every field of the slot is assigned its default
SetDefaults(slot) ==
    [slot EXCEPT !.name = NULLSTR, !.description = NULLSTR,
                 !.publisher = NULLSTR, !.developer = NULLSTR,
                 !.origin = NULLSTR, !.franchise = NULLSTR,
                 !.bbfc_rating = NULLSTR, !.elspa_rating = NULLSTR,
                 !.esrb_rating = NULLSTR, !.pegi_rating = NULLSTR,
                 !.cero_rating = NULLSTR, !.edge_magazine_review = NULLSTR,
                 !.enhancement_hw = NULLSTR, !.crc32 = NULLSTR,
                 !.sha1 = NULLSTR, !.md5 = NULLSTR,
                 !.famitsu_magazine_rating = 0, !.edge_magazine_rating = 0,
                 !.edge_magazine_issue = 0, !.max_users = 0,
                 !.releasemonth = 0, !.releaseyear = 0,
                 !.analog_supported = -1, !.rumble_supported = -1]

\* what realloc leaves in the new slot: zero bytes, or stale bytes of an
\* entry that lived there before
StaleStr == [ptr |-> -1, buf |-> <<"o", "l", "d", NUL>>]
StrayEntries ==
    { [f \in StrFields \cup HexFields \cup UintFields \cup FlagFields |->
          IF f \in StrFields \cup HexFields THEN NULLSTR ELSE 0],
      [f \in StrFields \cup HexFields \cup UintFields \cup FlagFields |->
          IF f \in StrFields \cup HexFields THEN StaleStr ELSE 1] }

\* the loop body keeping a text field that is already set
AssignPairKeepFirst(e, h, key, val, u) ==
    IF key \in StrKeys THEN
        IF e[KeyField[key]].ptr # 0 THEN [e |-> e, h |-> h]
        ELSE [e |-> [e EXCEPT ![KeyField[key]] = strdup(h, val)],
              h |-> Alloc(h, "str")]
    ELSE IF key \in UintKeys THEN
        [e |-> [e EXCEPT ![KeyField[key]] = val], h |-> h]
    ELSE IF key \in HexKeys THEN
        [e |-> [e EXCEPT ![KeyField[key]] = bin_to_hex_alloc(h, val, u)],
         h |-> Alloc(h, "str")]
    ELSE [e |-> e, h |-> h]

\* one iteration of the for loop (lines 259-330) on the pair (key, val):
\* the entry and the heap after it
AssignPair(e, h, key, val, u) ==
    IF key \in StrKeys THEN
        [e |-> [e EXCEPT ![KeyField[key]] = strdup(h, val)],
         h |-> Alloc(h, "str")]
    ELSE IF key \in UintKeys THEN
        [e |-> [e EXCEPT ![KeyField[key]] = val], h |-> h]
    ELSE IF key \in HexKeys THEN
        [e |-> [e EXCEPT ![KeyField[key]] = bin_to_hex_alloc(h, val, u)],
         h |-> Alloc(h, "str")]
    ELSE [e |-> e, h |-> h]

\* free called on every text field, null or not
FreedFieldsUnguarded(e) == StrFields \cup HexFields

\* the fields of entry e that database_info_list_free passes to free: those
\* whose guard, if (info->name) and so on, finds a non-null pointer
FreedFields(e) == {f \in StrFields \cup HexFields : e[f].ptr # 0}

\* free(info->f) for each field f of fs
RECURSIVE FreeFields(_, _, _)
FreeFields(h, e, fs) ==
    IF fs = {} THEN h
    ELSE LET f == CHOOSE x \in fs : TRUE
         IN  FreeFields(Free(h, e[f].ptr), e, fs \ {f})

\* for (i = 0; i < database_info_list->count; i++): the heap after it
RECURSIVE FreeEntries(_, _, _, _)
FreeEntries(h, mem, i, count) ==
    IF i >= count THEN h
    ELSE FreeEntries(FreeFields(h, mem[i + 1], FreedFields(mem[i + 1])),
                     mem, i + 1, count)

\* the number of calls of free that loop makes
RECURSIVE FreeEntriesCalls(_, _, _)
FreeEntriesCalls(mem, i, count) ==
    IF i >= count THEN 0
    ELSE Cardinality(FreedFields(mem[i + 1])) + FreeEntriesCalls(mem, i + 1, count)

\* database_info_list_free(p) on a container holding (lst, count), where
\* mem is the memory lst points to
database_info_list_free(h, p, lst, count, mem) ==
    IF p = 0 THEN h
    ELSE Free(Free(FreeEntries(h, mem, 0, count), lst), p)


(***************************************************************************)
(* Items the cursor yields.                                                *)
(***************************************************************************)
Foo == <<"F", "o", "o">>
Bar == <<"B", "a", "r">>
StrVals == {Foo, Bar}
UintVals == {0, 2}
BinVals == {<<>>, <<10, 255>>}

Pair(key, val) == [key |-> key, val |-> val]

\* a pair under a recognized key carries a value of the key's type; "serial"
\* stands for the keys database_info_list_new does not recognize
Pairs ==
    {Pair(key, v) : key \in StrKeys, v \in StrVals}
        \cup {Pair(key, v) : key \in UintKeys, v \in UintVals}
        \cup {Pair(key, v) : key \in HexKeys, v \in BinVals}
        \cup {Pair("serial", Foo)}

MapItem(m) == [type |-> "MAP", map |-> m]
OtherItem == [type |-> "OTHER", map |-> <<>>]

\* every map of at most MaxPairs pairs
AllItems == {MapItem(m) : m \in SeqsUpTo(Pairs, MaxPairs)}

\* the maps the whole-build specification draws from
BuildItems ==
    { MapItem(<<>>),
      MapItem(<<Pair("name", Foo)>>),
      MapItem(<<Pair("name", Foo), Pair("users", 2), Pair("rumble", 1)>>),
      MapItem(<<Pair("name", Foo), Pair("serial", Bar), Pair("name", Bar)>>),
      MapItem(<<Pair("crc", <<>>), Pair("analog", 2), Pair("md5", <<10, 255>>)>>) }

(***************************************************************************)
(* database_open_cursor(db, cur, query), given what the engine answers:    *)
(* whether libretrodb_query_compile sets error, and whether                *)
(* libretrodb_cursor_open returns 0.                                       *)
(***************************************************************************)
\* database_open_cursor compiling only a query text that is not empty
database_open_cursor_nonempty(q, compile_error, cursor_ok) ==
    LET compiled == (q = "TEXT")
        error    == compiled /\ compile_error
    IN  [compiles |-> IF compiled THEN 1 ELSE 0,
         error    |-> error,
         opens    |-> IF error THEN 0 ELSE 1,
         rc       |-> IF error THEN -1
                      ELSE IF ~cursor_ok THEN -1
                      ELSE 0,
         bound    |-> IF error \/ ~cursor_ok THEN "none"
                      ELSE IF compiled THEN "query"
                      ELSE "all"]

database_open_cursor(q, compile_error, cursor_ok) ==
    LET compiled == (q # "NULL")               \* if (query) q = compile(...)
        error    == compiled /\ compile_error
    IN  [compiles |-> IF compiled THEN 1 ELSE 0,
         error    |-> error,
         opens    |-> IF error THEN 0 ELSE 1,  \* if (error) return -1;
         rc       |-> IF error THEN -1
                      ELSE IF ~cursor_ok THEN -1
                      ELSE 0,
         bound    |-> IF error \/ ~cursor_ok THEN "none"
                      ELSE IF compiled THEN "query"
                      ELSE "all"]

Queries == {"NULL", "EMPTY", "TEXT"}

\* the locals of database_info_list_new at its entry
ListNewEntry ==
    /\ pc = "open"
    /\ query = "NULL"
    /\ compiles = 0
    /\ bound = "none"
    /\ dbh = "unopened"
    /\ dbh_closes = 0
    /\ cur = "unopened"
    /\ cur_closes = 0
    /\ heap = <<>>
    /\ database_info_list = 0
    /\ ll_list = 0
    /\ ll_count = 0
    /\ database_info = 0
    /\ arr = <<>>
    /\ k = 0
    /\ item = OtherItem
    /\ j = 0
    /\ reads = 0
    /\ maps = <<>>
    /\ result = "none"
    /\ exit_new = "none"
    /\ q_error = FALSE
    /\ cur_opens = 0
    /\ free_calls = 0

\* a handle no call is made on, for the specifications of the build
NoScan ==
    /\ db = "null"
    /\ list = <<>>
    /\ list_ptr = 0
    /\ status = DATABASE_STATUS_ITERATE
    /\ type = DATABASE_TYPE_NONE
    /\ ret = RET_CONTINUE
    /\ exit = "none"
    /\ calls = 0
    /\ skipped = 0
    /\ finished = 0
    /\ oob = FALSE
    /\ bufs = 0
    /\ done_seen = FALSE
    /\ late_work = FALSE
    /\ msgs = 0
    /\ work = 0

\* return NULL / return database_info_list
Return(r, x) ==
    /\ pc' = "done"
    /\ result' = r
    /\ exit_new' = x

\* the error: label (lines 340-344)
GotoError(x) ==
    /\ cur' = "closed"
    /\ cur_closes' = cur_closes + 1
    /\ dbh' = "closed"
    /\ dbh_closes' = dbh_closes + 1
    /\ heap' = database_info_list_free(heap, database_info_list,
                                       ll_list, ll_count, arr)
    /\ free_calls' = free_calls +
          (IF database_info_list = 0 THEN 0
           ELSE FreeEntriesCalls(arr, 0, ll_count))
    /\ Return("NULL", x)

\* if ((libretrodb_open(rdb_path, &db)) != 0) return NULL;
ListNewOpenFail ==
    /\ pc = "open"
    /\ \E q \in Queries : query' = q
    /\ Return("NULL", "openfail")
    /\ UNCHANGED <<compiles, bound, dbh, dbh_closes, cur, cur_closes, heap,
                   database_info_list, ll_list, ll_count, database_info, arr,
                   k, item, j, reads, maps>>
    /\ UNCHANGED <<q_error, cur_opens, free_calls>>
    /\ UNCHANGED scanVars
    /\ UNCHANGED padVars

\* if ((database_open_cursor(&db, &cur, query) != 0)) return NULL;
ListNewCursorFail ==
    /\ pc = "open"
    /\ \E q \in Queries, compile_error, cursor_ok \in BOOLEAN :
          LET oc == database_open_cursor(q, compile_error, cursor_ok)
          IN  /\ oc.rc # 0
              /\ query' = q
              /\ compiles' = compiles + oc.compiles
              /\ q_error' = oc.error
              /\ cur_opens' = cur_opens + oc.opens
              /\ bound' = oc.bound
    /\ dbh' = "open"
    /\ Return("NULL", "cursorfail")
    /\ UNCHANGED <<dbh_closes, cur, cur_closes, heap, database_info_list,
                   ll_list, ll_count, database_info, arr, k, item, j, reads,
                   maps>>
    /\ UNCHANGED <<free_calls>>
    /\ UNCHANGED scanVars
    /\ UNCHANGED padVars

\* both opened; calloc of the list container fails: goto error
ListNewCallocFail ==
    /\ pc = "open"
    /\ \E q \in Queries, compile_error \in BOOLEAN :
          LET oc == database_open_cursor(q, compile_error, TRUE)
          IN  /\ oc.rc = 0
              /\ query' = q
              /\ compiles' = compiles + oc.compiles
              /\ q_error' = oc.error
              /\ cur_opens' = cur_opens + oc.opens
              /\ bound' = oc.bound
    /\ GotoError("callocfail")
    /\ UNCHANGED <<database_info_list, ll_list, ll_count, database_info, arr,
                   k, item, j, reads, maps>>
    /\ UNCHANGED scanVars
    /\ UNCHANGED padVars

\* both opened, the list container allocated (calloc: list NULL, count 0)
ListNewBegin(queries) ==
    /\ pc = "open"
    /\ \E q \in queries, compile_error \in BOOLEAN :
          LET oc == database_open_cursor(q, compile_error, TRUE)
          IN  /\ oc.rc = 0
              /\ query' = q
              /\ compiles' = compiles + oc.compiles
              /\ q_error' = oc.error
              /\ cur_opens' = cur_opens + oc.opens
              /\ bound' = oc.bound
    /\ dbh' = "open"
    /\ cur' = "open"
    /\ heap' = Alloc(heap, "list")
    /\ database_info_list' = Len(heap) + 1
    /\ ll_list' = 0
    /\ ll_count' = 0
    /\ pc' = "read"
    /\ UNCHANGED <<dbh_closes, cur_closes, database_info, arr, k, item, j,
                   reads, maps, result, exit_new>>
    /\ UNCHANGED <<free_calls>>
    /\ UNCHANGED scanVars
    /\ UNCHANGED padVars

\* libretrodb_cursor_read_item != 0: lines 335-338
ListNewEnd ==
    /\ pc = "read"
    /\ ll_list' = database_info
    /\ ll_count' = k
    /\ Return("list", "success")
    /\ UNCHANGED <<query, compiles, bound, dbh, dbh_closes, cur, cur_closes,
                   heap, database_info_list, database_info, arr, k, item, j,
                   reads, maps>>
    /\ UNCHANGED <<q_error, cur_opens, free_calls>>
    /\ UNCHANGED scanVars
    /\ UNCHANGED padVars

\* the skip of a non-map item counting it as an entry
ListNewSkipCounted(limit) ==
    /\ pc = "read"
    /\ reads < limit
    /\ item' = OtherItem
    /\ reads' = reads + 1
    /\ k' = k + 1
    /\ UNCHANGED <<pc, query, compiles, bound, dbh, dbh_closes, cur,
                   cur_closes, heap, database_info_list, ll_list, ll_count,
                   database_info, arr, j, maps, result, exit_new>>
    /\ UNCHANGED <<q_error, cur_opens, free_calls>>
    /\ UNCHANGED scanVars
    /\ UNCHANGED padVars

\* if (item.type != RDT_MAP) continue;
ListNewSkip(limit) ==
    /\ pc = "read"
    /\ reads < limit
    /\ item' = OtherItem
    /\ reads' = reads + 1
    /\ UNCHANGED <<pc, query, compiles, bound, dbh, dbh_closes, cur,
                   cur_closes, heap, database_info_list, ll_list, ll_count,
                   database_info, arr, k, j, maps, result, exit_new>>
    /\ UNCHANGED <<q_error, cur_opens, free_calls>>
    /\ UNCHANGED scanVars
    /\ UNCHANGED padVars

\* a map item, realloc returns NULL (the old block stays allocated, the
\* only pointer to it is overwritten): goto error
ListNewGrowFail(items, limit) ==
    /\ pc = "read"
    /\ reads < limit
    /\ \E it \in items :
          /\ item' = it
          /\ maps' = Append(maps, it)
    /\ reads' = reads + 1
    /\ database_info' = 0
    /\ GotoError("growfail")
    /\ UNCHANGED <<query, compiles, bound, database_info_list, ll_list,
                   ll_count, arr, k, j>>
    /\ UNCHANGED <<q_error, cur_opens>>
    /\ UNCHANGED scanVars
    /\ UNCHANGED padVars

\* a map item, realloc succeeds: db_info = &database_info[k] gets its
\* defaults (lines 222-255)
ListNewGrow(items, limit) ==
    /\ pc = "read"
    /\ reads < limit
    /\ \E it \in items :
          /\ item' = it
          /\ maps' = Append(maps, it)
    /\ reads' = reads + 1
    /\ IF database_info = 0
          THEN /\ heap' = Alloc(heap, "array")
               /\ database_info' = Len(heap) + 1
          ELSE UNCHANGED <<heap, database_info>>
    /\ \E stray \in StrayEntries :
          arr' = Append(SubSeq(arr, 1, k), SetDefaults(stray))
    /\ j' = 0
    /\ pc' = "pairs"
    /\ UNCHANGED <<query, compiles, bound, dbh, dbh_closes, cur, cur_closes,
                   database_info_list, ll_list, ll_count, k, result, exit_new>>
    /\ UNCHANGED <<q_error, cur_opens, free_calls>>
    /\ UNCHANGED scanVars
    /\ UNCHANGED padVars

\* one iteration of for (j = 0; j < item.map.len; j++)
ListNewPair ==
    /\ pc = "pairs"
    /\ j < Len(item.map)
    /\ \E u \in StrayBytes :
          LET p == item.map[j + 1]
              a == AssignPair(arr[k + 1], heap, p.key, p.val, u)
          IN  /\ arr' = [arr EXCEPT ![k + 1] = a.e]
              /\ heap' = a.h
    /\ j' = j + 1
    /\ UNCHANGED <<pc, query, compiles, bound, dbh, dbh_closes, cur,
                   cur_closes, database_info_list, ll_list, ll_count,
                   database_info, k, item, reads, maps, result, exit_new>>
    /\ UNCHANGED <<q_error, cur_opens, free_calls>>
    /\ UNCHANGED scanVars
    /\ UNCHANGED padVars

\* the for loop ends and the next item reuses the slot
ListNewNextSameSlot ==
    /\ pc = "pairs"
    /\ j = Len(item.map)
    /\ pc' = "read"
    /\ UNCHANGED <<query, compiles, bound, dbh, dbh_closes, cur, cur_closes,
                   heap, database_info_list, ll_list, ll_count, database_info,
                   arr, k, item, j, reads, maps, result, exit_new>>
    /\ UNCHANGED <<q_error, cur_opens, free_calls>>
    /\ UNCHANGED scanVars
    /\ UNCHANGED padVars

\* the for loop ends: k++ and back to the while condition
ListNewNext ==
    /\ pc = "pairs"
    /\ j = Len(item.map)
    /\ k' = k + 1
    /\ pc' = "read"
    /\ UNCHANGED <<query, compiles, bound, dbh, dbh_closes, cur, cur_closes,
                   heap, database_info_list, ll_list, ll_count, database_info,
                   arr, item, j, reads, maps, result, exit_new>>
    /\ UNCHANGED <<q_error, cur_opens, free_calls>>
    /\ UNCHANGED scanVars
    /\ UNCHANGED padVars

\* the caller hands what database_info_list_new returned, a list or NULL,
\* to database_info_list_free
ListFreeReturned ==
    /\ pc = "done"
    /\ LET p == IF result = "list" THEN database_info_list ELSE 0
       IN  /\ heap' = database_info_list_free(heap, p, ll_list, ll_count, arr)
           /\ free_calls' = free_calls +
                 (IF p = 0 THEN 0 ELSE FreeEntriesCalls(arr, 0, ll_count))
    /\ pc' = "freed"
    /\ UNCHANGED <<query, compiles, bound, dbh, dbh_closes, cur, cur_closes,
                   database_info_list, ll_list, ll_count, database_info, arr,
                   k, item, j, reads, maps, result, exit_new, q_error,
                   cur_opens>>
    /\ UNCHANGED scanVars
    /\ UNCHANGED padVars

\* database_info_list_new on a cursor of at most MaxItems items, and the
\* release of its result
database_info_list_new ==
    \/ ListNewOpenFail
    \/ ListNewCursorFail
    \/ ListNewCallocFail
    \/ ListNewBegin(Queries)
    \/ ListNewEnd
    \/ ListNewSkip(MaxItems)
    \/ ListNewGrowFail(BuildItems, MaxItems)
    \/ ListNewGrow(BuildItems, MaxItems)
    \/ ListNewPair
    \/ ListNewNext
    \/ ListFreeReturned

\* database_info_list_new(rdb_path, NULL) where every open and allocation
\* succeeds, on a cursor of one map item
MaterializeOne ==
    \/ ListNewBegin({"NULL"})
    \/ ListNewGrow(AllItems, 1)
    \/ ListNewPair
    \/ ListNewNext
    \/ ListNewEnd

(***************************************************************************)
(* PS3 joypad driver.                                                      *)
(***************************************************************************)
Ports == 0..(MAX_PADS - 1)

\* the 8-bit values a pad reports for an axis
U8 == 0..255

\* conversion of an int to int16_t
ToS16(x) == ((x + 32768) % 65536) - 32768

\* convert_u8_to_s16 without its special case for 0
convert_u8_to_s16_unguarded(val) == ToS16(val * 257 - 32768)

\* convert_u8_to_s16: if (val == 0) return -0x7fff;
\*                    return val * 0x0101 - 0x8000;
convert_u8_to_s16(val) ==
    IF val = 0 THEN -32767 ELSE ToS16(val * 257 - 32768)

\* RETRO_DEVICE_ID_JOYPAD_*: the bits of pad_state
RetroIds == {"B", "Y", "SELECT", "START", "UP", "DOWN", "LEFT", "RIGHT",
             "A", "X", "L", "R", "L2", "R2", "L3", "R3"}

\* the buttons of the pad data that set the bit of the same name
SameName == {"LEFT", "DOWN", "RIGHT", "UP", "START", "R3", "L3", "SELECT",
             "R2", "L2"}

\* the buttons of the pad data that set a bit of another name in both builds
Renamed == [TRIANGLE |-> "X", SQUARE |-> "Y", R1 |-> "R", L1 |-> "L"]

CellButtons == SameName \cup DOMAIN Renamed \cup {"CROSS", "CIRCLE"}

\* the bits CROSS and CIRCLE set: B and A, except in the menu of the SDK
\* build, where the button cellSysutilGetSystemParamInt names as the enter
\* button sets A and the other B, and neither sets a bit if that call fails
ConfirmBits(btn, sdk_menu, assign) ==
    IF ~sdk_menu THEN
        (IF "CROSS" \in btn THEN {"B"} ELSE {})
            \cup (IF "CIRCLE" \in btn THEN {"A"} ELSE {})
    ELSE IF assign = "fail" THEN {}
    ELSE (IF "CROSS" \in btn
             THEN {IF assign = "CROSS" THEN "A" ELSE "B"} ELSE {})
            \cup (IF "CIRCLE" \in btn
                     THEN {IF assign = "CIRCLE" THEN "A" ELSE "B"} ELSE {})

\* *state_cur = 0; and the |= of lines 165-180 (PSL1GHT) or 182-213 (SDK)
ButtonBits(btn, sdk_menu, assign) ==
    (btn \cap SameName)
        \cup {Renamed[b] : b \in btn \cap DOMAIN Renamed}
        \cup ConfirmBits(btn, sdk_menu, assign)

\* the pad data cellPadGetData hands back
PadRecord(len, btn, lsx, lsy, rsx, rsy) ==
    [len |-> len, btn |-> btn, lsx |-> lsx, lsy |-> lsy, rsx |-> rsx,
     rsy |-> rsy]

PadData ==
    { PadRecord(0, {}, 0, 0, 0, 0),
      PadRecord(1, {"L3", "R3"}, 0, 255, 128, 127),
      PadRecord(1, {"CROSS", "L3"}, 1, 254, 128, 128) }

\* runloop->is_menu and, in the menu, what cellSysutilGetSystemParamInt
\* answers for the enter button: "fail" if it does not return 0
MenuInputs ==
    {[is_menu |-> FALSE, assign |-> "fail"]}
        \cup {[is_menu |-> TRUE, assign |-> a] : a \in {"fail", "CROSS", "CIRCLE"}}

\* analog_state[port] after lines 215-222 on the data d
AnalogOf(d) ==
    [si \in 0..1 |-> [sj \in 0..1 |->
        convert_u8_to_s16(IF si = 0 THEN (IF sj = 0 THEN d.lsx ELSE d.lsy)
                                   ELSE (IF sj = 0 THEN d.rsx ELSE d.rsy))]]

\* lines 232-235: if (analog_state[port][i][j] == -0x8000) ... = -0x7fff;
\* (si, sj stand for the stick index i and the axis index j)
ClampAnalog(a) ==
    [si \in 0..1 |-> [sj \in 0..1 |->
        IF a[si][sj] = -32768 THEN -32767 ELSE a[si][sj]]]

\* pad_info.port_status[port]: the flags that are set
PortStatuses == SUBSET {"ASSIGN_CHANGES", "CONNECTED"}

\* lines 135-153 on the status st of the port
Disconnects(st) == "ASSIGN_CHANGES" \in st /\ "CONNECTED" \notin st
Connects(st) == "ASSIGN_CHANGES" \in st /\ "CONNECTED" \in st

\* the state of the connection handling of the port, common to the three
\* ways its iteration goes on
ConnectionChange(st) ==
    /\ pads_connected' =
          [pads_connected EXCEPT ![port] =
              IF Disconnects(st) THEN 0 ELSE IF Connects(st) THEN 1 ELSE @]
    /\ last_msg' = IF Disconnects(st) THEN port ELSE last_msg
    /\ device_names' =
          IF Connects(st)
             THEN [device_names EXCEPT ![port] = "SixAxis Controller"]
             ELSE device_names

LifecycleBits == {"RARCH_MENU_TOGGLE", "RARCH_QUIT_KEY"}

\* the statics of the driver when it is loaded, and a lifecycle state
NoPoll ==
    /\ psl1ght = FALSE
    /\ pad_state = [p \in Ports |-> {}]
    /\ analog_state = [p \in Ports |-> [si \in 0..1 |-> [sj \in 0..1 |-> 0]]]
    /\ pads_connected = [p \in Ports |-> 0]
    /\ lifecycle_state = {}
    /\ device_names = [p \in Ports |-> ""]
    /\ last_msg = -1
    /\ port = 0

ps3_joypad_init ==
    /\ psl1ght \in BOOLEAN
    /\ pad_state = [p \in Ports |-> {}]
    /\ analog_state = [p \in Ports |-> [si \in 0..1 |-> [sj \in 0..1 |-> 0]]]
    /\ pads_connected = [p \in Ports |-> 0]
    /\ lifecycle_state \in SUBSET LifecycleBits
    /\ device_names = [p \in Ports |-> ""]
    /\ last_msg = -1
    /\ port = 0

\* the skip of a disconnected port that clears its buttons
PollSkipClearing ==
    /\ port < MAX_PADS
    /\ \E st \in PortStatuses : ConnectionChange(st)
    /\ pads_connected'[port] = 0
    /\ pad_state' = [pad_state EXCEPT ![port] = {}]
    /\ port' = port + 1
    /\ UNCHANGED <<psl1ght, analog_state, lifecycle_state>>
    /\ UNCHANGED scanVars
    /\ UNCHANGED buildVars

\* one iteration of the loop: if (pads_connected[port] == 0) continue;
PollSkip ==
    /\ port < MAX_PADS
    /\ \E st \in PortStatuses : ConnectionChange(st)
    /\ pads_connected'[port] = 0
    /\ port' = port + 1
    /\ UNCHANGED <<psl1ght, pad_state, analog_state, lifecycle_state>>
    /\ UNCHANGED scanVars
    /\ UNCHANGED buildVars

\* one iteration of the loop on a connected port for which cellPadGetData
\* reports state_tmp.len == 0: only the loop of lines 232-235
PollNoData ==
    /\ port < MAX_PADS
    /\ \E st \in PortStatuses : ConnectionChange(st)
    /\ pads_connected'[port] # 0
    /\ \E d \in PadData : d.len = 0
    /\ analog_state' =
          [analog_state EXCEPT ![port] = ClampAnalog(analog_state[port])]
    /\ port' = port + 1
    /\ UNCHANGED <<psl1ght, pad_state, lifecycle_state>>
    /\ UNCHANGED scanVars
    /\ UNCHANGED buildVars

\* one iteration of the loop on a connected port with new pad data: the
\* buttons (lines 162-213), the sticks (215-222, SDK build only) and the
\* loop of lines 232-235
PollData ==
    /\ port < MAX_PADS
    /\ \E st \in PortStatuses : ConnectionChange(st)
    /\ pads_connected'[port] # 0
    /\ \E d \in PadData, m \in MenuInputs :
          /\ d.len # 0
          /\ pad_state' =
                [pad_state EXCEPT ![port] =
                    ButtonBits(d.btn, ~psl1ght /\ m.is_menu, m.assign)]
          /\ analog_state' =
                [analog_state EXCEPT ![port] =
                    ClampAnalog(IF psl1ght THEN @ ELSE AnalogOf(d))]
    /\ port' = port + 1
    /\ UNCHANGED <<psl1ght, lifecycle_state>>
    /\ UNCHANGED scanVars
    /\ UNCHANGED buildVars

\* the end of the poll never clearing the menu toggle
PollMenuToggleSticky ==
    /\ port = MAX_PADS
    /\ lifecycle_state' =
          IF {"L3", "R3"} \subseteq pad_state[0]
             THEN lifecycle_state \cup {"RARCH_MENU_TOGGLE"}
             ELSE lifecycle_state
    /\ port' = 0
    /\ UNCHANGED <<psl1ght, pad_state, analog_state, pads_connected,
                   device_names, last_msg>>
    /\ UNCHANGED scanVars
    /\ UNCHANGED buildVars

\* after the loop (lines 238-243): the menu toggle from the buttons of
\* port 0; ps3_joypad_poll returns
PollMenuToggle ==
    /\ port = MAX_PADS
    /\ lifecycle_state' =
          IF {"L3", "R3"} \subseteq pad_state[0]
             THEN (lifecycle_state \ {"RARCH_MENU_TOGGLE"})
                      \cup {"RARCH_MENU_TOGGLE"}
             ELSE lifecycle_state \ {"RARCH_MENU_TOGGLE"}
    /\ port' = 0
    /\ UNCHANGED <<psl1ght, pad_state, analog_state, pads_connected,
                   device_names, last_msg>>
    /\ UNCHANGED scanVars
    /\ UNCHANGED buildVars

\* ps3_joypad_poll, called again and again
ps3_joypad_poll ==
    \/ PollSkip
    \/ PollNoData
    \/ PollData
    \/ PollMenuToggle

\* the keys ps3_joypad_button is asked for: the button ids, and a key of 64
\* or more
JoyKeys == RetroIds \cup {"KEY_64"}

\* ps3_joypad_button(port_num, joykey): the values it can return.  For a key
\* of 64 or more the shift 1ULL << joykey is undefined.
ps3_joypad_button(port_num, joykey) ==
    IF port_num >= MAX_PADS THEN {FALSE}
    ELSE IF joykey \in RetroIds THEN {joykey \in pad_state[port_num]}
    ELSE BOOLEAN

InitScan == database_info_init /\ ListNewEntry /\ NoPoll
SpecScan == InitScan /\ [][database_info_iterate]_vars

InitBuild == NoScan /\ ListNewEntry /\ NoPoll
SpecBuild == InitBuild /\ [][database_info_list_new]_vars

SpecMat == InitBuild /\ [][MaterializeOne]_vars

InitPoll == NoScan /\ ListNewEntry /\ ps3_joypad_init
SpecPoll == InitPoll /\ [][ps3_joypad_poll]_vars

(***************************************************************************)
(* Properties of the scan handle, under SpecScan.                          *)
(***************************************************************************)

\* a step of the model that is one call of database_info_iterate
IsCall == calls' = calls + 1

\* C1: repeated calls of database_info_iterate reach FINISHED after exactly
\* (path-sequence length + calls skipped on an absent entry) calls, and no
\* call after FINISHED processes a path again.  Stated on each state: once
\* more calls were made than that number, a call has finished the scan; a
\* call finishes only as call number length + skipped + 1; and no call after
\* it went on to process a path.
C1_FinishedAfterLengthPlusSkipped ==
    db = "ok" =>
        /\ calls > Len(list) + skipped => done_seen
        /\ (exit = "finish" /\ finished = 1) => calls = Len(list) + skipped + 1
        /\ ~late_work

\* C2: on a BUILD_CATALOG (RDL_WRITE) handle whose index is below the length
\* and whose current path is present, every call increases list_ptr by
\* exactly 1 and returns CONTINUE, whatever the file or container does.
C2_BuildCatalogAlwaysAdvances ==
    [][(/\ IsCall
        /\ db = "ok"
        /\ type = DATABASE_TYPE_RDL_WRITE
        /\ list_ptr < Len(list)
        /\ list[list_ptr + 1] # "absent")
       => (list_ptr' = list_ptr + 1 /\ ret' = RET_CONTINUE)]_vars

\* C3: a call on a non-null handle whose index is >= the length, for either
\* operation kind, pushes the scan-finished message, sets the status to
\* DONE (FREE) and returns FINISHED, a value that is neither CONTINUE nor
\* ERROR, without having read a path entry at that index.
C3_ExhaustedHandleFinishes ==
    [][(IsCall /\ db = "ok" /\ list_ptr >= Len(list))
       => (/\ finished' = finished + 1
           /\ status' = DATABASE_STATUS_FREE
           /\ exit' = "finish"
           /\ ret' \notin {RET_CONTINUE, RET_ERROR}
           /\ ~oob')]_vars

\* C4: list_ptr never decreases and stays within 0..length; the status
\* changes only from ITERATE to FREE (DONE), only where list_ptr equals the
\* length, and never changes back.
C4_CursorBoundedStatusOneWay ==
    [][/\ list_ptr' >= list_ptr
       /\ 0 <= list_ptr' /\ list_ptr' <= Len(list')
       /\ status = DATABASE_STATUS_FREE => status' = DATABASE_STATUS_FREE
       /\ status' # status =>
             /\ status = DATABASE_STATUS_ITERATE
             /\ status' = DATABASE_STATUS_FREE
             /\ list_ptr' = Len(list')]_vars

\* C4 witness: every path of a two-entry list was passed, the status went
\* to FREE, and a further call left it there
C4_Witness ==
    /\ Len(list) >= 2
    /\ list_ptr = Len(list)
    /\ status = DATABASE_STATUS_FREE
    /\ finished >= 2

(***************************************************************************)
(* Properties of database_info_list_new, under SpecBuild.                  *)
(***************************************************************************)

Returned == pc = "done"

\* no block the build allocated is still allocated
NothingAllocated == \A b \in 1..Len(heap) : heap[b].frees >= 1

\* C5: when the database opens but database_open_cursor fails, the build
\* returns error and has closed the database: no handle remains open.
C5_CursorFailureClosesDatabase ==
    (Returned /\ exit_new = "cursorfail") =>
        /\ result = "NULL"
        /\ dbh # "open"
        /\ cur # "open"

\* C6: on every return reached after the database and the cursor were
\* opened, success or error, the cursor and the database are both closed,
\* each exactly once.
C6_HandlesClosedOnEveryReturn ==
    (Returned /\ exit_new \in {"success", "callocfail", "growfail"}) =>
        /\ cur = "closed" /\ cur_closes = 1
        /\ dbh = "closed" /\ dbh_closes = 1

\* C7: when growing the entry array fails on the (k+1)-th entry, the build
\* returns error and has released the k entries, their strings, the entry
\* array and the list container: nothing it allocated remains allocated.
C7_GrowFailureReleasesEverything ==
    (Returned /\ exit_new = "growfail") =>
        /\ result = "NULL"
        /\ NothingAllocated

\* C8 as claimed: database and cursor opened, the cursor read and no map
\* item among what it yielded: the build returns a list, not an error,
\* with count 0 and a non-null entry sequence.
C8_EmptyListNonNullEntries ==
    (Returned /\ bound # "none" /\ database_info_list # 0 /\ maps = <<>>) =>
        /\ result = "list"
        /\ ll_count = 0
        /\ ll_list # 0

\* C8 as amended: database and cursor opened, the cursor read and no map
\* item among what it yielded: the build returns a list, not an error,
\* with count 0 and a null entry array.
C8_EmptyListNullEntries ==
    (Returned /\ bound # "none" /\ database_info_list # 0 /\ maps = <<>>) =>
        /\ result = "list"
        /\ ll_count = 0
        /\ ll_list = 0

\* C8 witness: a list was returned after a cursor of non-map items only
C8_Witness ==
    /\ Returned
    /\ result = "list"
    /\ reads >= 2
    /\ maps = <<>>

(***************************************************************************)
(* Properties of the materialized entry, under SpecMat.                    *)
(***************************************************************************)

\* the item read last has been materialized into arr[k]
Materialized == pc \in {"read", "done"} /\ k >= 1 /\ item.type = "MAP"

\* the indexes of the pairs of map m under key
Occurrences(m, key) == {i \in 1..Len(m) : m[i].key = key}

\* upper-case hexadecimal text of the bytes data, high nibble first
HexText(data) ==
    [c \in 1..(2 * Len(data)) |->
        LET byte == data[(c + 1) \div 2]
        IN  IF c % 2 = 1 THEN HexDigits[(byte \div 16) + 1]
                         ELSE HexDigits[(byte % 16) + 1]]

\* field f of entry e holds the value val given under key
FieldHolds(e, key, val) ==
    LET f == KeyField[key]
    IN  IF key \in StrKeys THEN e[f].ptr # 0 /\ e[f].buf = Append(val, NUL)
        ELSE IF key \in HexKeys THEN
            /\ e[f].ptr # 0
            /\ Len(e[f].buf) > 2 * Len(val)
            /\ SubSeq(e[f].buf, 1, 2 * Len(val)) = HexText(val)
        ELSE e[f] = val

\* field f of entry e is at its documented default
FieldDefault(e, f) ==
    IF f \in StrFields \cup HexFields THEN e[f].ptr = 0
    ELSE IF f \in FlagFields THEN e[f] = -1
    ELSE e[f] = 0

\* C9: the entry materialized from a map record has each recognized key's
\* value in the key's field, and every field whose key does not occur at
\* its default (null, 0, or -1 for the two flags), whatever the slot held.
C9_FieldsFromKeysElseDefaults ==
    Materialized =>
        \A key \in Keys :
            LET occ == Occurrences(item.map, key)
            IN  IF occ = {} THEN FieldDefault(arr[k], KeyField[key])
                ELSE \E i \in occ : FieldHolds(arr[k], key, item.map[i].val)

\* C9 witness: {"name": "Foo", "users": 2} was materialized
C9_Witness ==
    /\ Materialized
    /\ item.map = <<Pair("name", Foo), Pair("users", 2)>>
    /\ arr[k].max_users = 2
    /\ arr[k].rumble_supported = -1

Last(S) == CHOOSE i \in S : \A i2 \in S : i2 <= i

\* C10: a pair under a key that is not recognized changes no field of the
\* entry, and a recognized key that occurs more than once leaves the value
\* of its last occurrence in the field.
C10_UnknownIgnoredLastWins ==
    /\ [][(pc = "pairs" /\ j' = j + 1 /\ item.map[j + 1].key \notin Keys)
          => arr' = arr]_vars
    /\ [](Materialized =>
            \A key \in Keys :
                LET occ == Occurrences(item.map, key)
                IN  occ # {} =>
                       FieldHolds(arr[k], key, item.map[Last(occ)].val))

\* C10 witness: {"name": "Foo", "name": "Bar"} was materialized
C10_Witness ==
    /\ Materialized
    /\ item.map = <<Pair("name", Foo), Pair("name", Bar)>>
    /\ arr[k].name.buf = Append(Bar, NUL)

(***************************************************************************)
(* Properties of database_info_list_free, under SpecBuild.                 *)
(***************************************************************************)

\* a step of the model that is the call of database_info_list_free on what
\* the build returned
IsRelease == pc = "done" /\ pc' = "freed"

\* the blocks the non-null text fields of the count entries point to
OwnedBlocks ==
    {arr[i][f].ptr : i \in 1..ll_count, f \in StrFields \cup HexFields} \ {0}

\* C11: releasing the list a successful build returned frees each non-null
\* text field of each of the count entries exactly once and calls free on no
\* null field, frees the entry array once and the container once, and
\* touches no other block; releasing a null list, or a list of count 0,
\* frees no entry field.
C11_ReleaseFreesEachOwnedFieldOnce ==
    [][IsRelease =>
        /\ result = "list" =>
              /\ \A b \in OwnedBlocks : heap[b].frees = 0 /\ heap'[b].frees = 1
              /\ free_calls' = free_calls + Cardinality(OwnedBlocks)
              /\ ll_list # 0 =>
                    heap[ll_list].frees = 0 /\ heap'[ll_list].frees = 1
              /\ heap[database_info_list].frees = 0
              /\ heap'[database_info_list].frees = 1
              /\ \A b \in 1..Len(heap) :
                    b \notin OwnedBlocks \cup {ll_list, database_info_list}
                        => heap'[b] = heap[b]
        /\ (result = "NULL" \/ ll_count = 0) => free_calls' = free_calls
        /\ result = "NULL" => heap' = heap]_vars

\* C11 witness: a returned list of two entries, one with a text field set
\* and a null field, was released
C11_Witness ==
    /\ pc = "freed"
    /\ result = "list"
    /\ ll_count = 2
    /\ free_calls >= 1
    /\ \E i \in 1..ll_count : arr[i].name.ptr # 0 /\ arr[i].md5.ptr = 0
    /\ heap[database_info_list].frees = 1

(***************************************************************************)
(* Properties of the returned list, under SpecBuild.                       *)
(***************************************************************************)

\* entry e carries what the map m gives: under each recognized key the value
\* of the key's last pair, and the default where the key does not occur
EntryOf(e, m) ==
    \A key \in Keys :
        LET occ == Occurrences(m, key)
        IN  IF occ = {} THEN FieldDefault(e, KeyField[key])
            ELSE FieldHolds(e, key, m[Last(occ)].val)

\* C12: the list a successful build returns has count equal to the number
\* of map records the cursor produced, with one entry per such record in
\* cursor order; the non-map records read in between add no entry and do
\* not change the count.
C12_CountIsNumberOfMapRecords ==
    (Returned /\ result = "list") =>
        /\ ll_count = Len(maps)
        /\ ll_count <= reads
        /\ Len(arr) = ll_count
        /\ \A i \in 1..ll_count : EntryOf(arr[i], maps[i].map)

\* C12 witness: a list of one entry returned after a cursor of two records,
\* one of them not a map
C12_Witness ==
    /\ Returned
    /\ result = "list"
    /\ reads = 2
    /\ Len(maps) = 1
    /\ ll_count = 1

(***************************************************************************)
(* Properties of the flags and checksums of the materialized entry, under  *)
(* SpecMat.                                                                *)
(***************************************************************************)

\* C13: in every materialized entry, whatever unsigned integer the record
\* stores under "analog" and "rumble", analog_supported and
\* rumble_supported hold one of -1 (unknown), 0 (unsupported) and
\* 1 (supported).
C13_FlagsAreTriState ==
    Materialized =>
        /\ arr[k].analog_supported \in {-1, 0, 1}
        /\ arr[k].rumble_supported \in {-1, 0, 1}

(***************************************************************************)
(* Properties of single calls of database_info_iterate, under SpecScan.    *)
(***************************************************************************)

\* C14: a call with a null handle, or with a handle whose list is null,
\* returns ERROR, changes neither list_ptr nor the status and pushes no
\* message.
C14_NullHandleIsErrorWithoutEffect ==
    [][(IsCall /\ db \in {"null", "nolist"})
       => (/\ ret' = RET_ERROR
           /\ exit' = "precondition"
           /\ list_ptr' = list_ptr
           /\ status' = status
           /\ msgs' = msgs
           /\ work' = work)]_vars

\* C14 witness: a handle whose list is null was stepped twice
C14_Witness ==
    /\ db = "nolist"
    /\ calls = 2
    /\ exit = "precondition"
    /\ ret = RET_ERROR
    /\ status = DATABASE_STATUS_ITERATE

\* C15: each call on a handle whose list is not yet exhausted advances
\* list_ptr by exactly one, for both operation kinds, BUILD_CATALOG
\* (RDL_WRITE) and NONE.  Stated for a current entry that is present and
\* readable with data, the case in which BUILD_CATALOG does advance.
C15_EveryKindAdvancesByOne ==
    [][(/\ IsCall
        /\ db = "ok"
        /\ type \in {DATABASE_TYPE_NONE, DATABASE_TYPE_RDL_WRITE}
        /\ list_ptr < Len(list)
        /\ list[list_ptr + 1] \in {"file", "zip", "badzip"})
       => list_ptr' = list_ptr + 1]_vars

(***************************************************************************)
(* Properties of database_open_cursor, under SpecBuild.                    *)
(***************************************************************************)

\* database_open_cursor was called and has returned
CursorOpenCalled == pc # "open" /\ exit_new # "openfail"

\* C16 as claimed: the query is compiled only when the query text is
\* non-empty; with no query text, null or empty, nothing is compiled and the
\* cursor is opened bound to match-all; when the compilation reports an
\* error, the open returns error without opening a cursor.
C16_CompiledOnlyWhenNonEmpty ==
    CursorOpenCalled =>
        /\ compiles = 1 => query = "TEXT"
        /\ query \in {"NULL", "EMPTY"} =>
              compiles = 0 /\ cur_opens = 1 /\ bound # "query"
        /\ q_error =>
              cur_opens = 0 /\ exit_new = "cursorfail" /\ result = "NULL"

\* C16 as amended: the query is compiled exactly when a query text is
\* given, the empty text included; with a null query nothing is compiled
\* and the cursor is opened bound to match-all; when the compilation
\* reports an error, the open returns error without opening a cursor.
C16_CompiledWhenNonNull ==
    CursorOpenCalled =>
        /\ compiles = 1 <=> query \in {"EMPTY", "TEXT"}
        /\ query = "NULL" =>
              compiles = 0 /\ cur_opens = 1 /\ bound # "query"
        /\ q_error =>
              cur_opens = 0 /\ exit_new = "cursorfail" /\ result = "NULL"

\* C16 witness: the empty query text was compiled and the cursor opened on
\* the compiled query
C16_Witness ==
    /\ CursorOpenCalled
    /\ query = "EMPTY"
    /\ compiles = 1
    /\ ~q_error
    /\ cur_opens = 1
    /\ bound = "query"

(***************************************************************************)
(* Properties of the plain-file branch and of absent entries, under        *)
(* SpecScan.                                                               *)
(***************************************************************************)

\* C17: after every return of database_info_iterate, whichever path the
\* plain-file branch took (read failed, zero bytes read, data read), no file
\* content buffer obtained during the call remains allocated.
C17_NoFileBufferRetained == bufs = 0

\* C18: when the path entry at list_ptr is absent (null), the call returns
\* CONTINUE and leaves list_ptr and the status unchanged, for either
\* operation kind, reads no file and pushes no message.
C18_AbsentEntryIsNoOp ==
    [][(/\ IsCall
        /\ db = "ok"
        /\ list_ptr < Len(list)
        /\ list[list_ptr + 1] = "absent")
       => (/\ ret' = RET_CONTINUE
           /\ exit' = "absent"
           /\ list_ptr' = list_ptr
           /\ status' = status
           /\ work' = work
           /\ msgs' = msgs
           /\ bufs' = bufs)]_vars

\* C18 witness: a BUILD_CATALOG handle passed a file, then was stepped on
\* an absent entry and stayed there
C18_Witness ==
    /\ db = "ok"
    /\ type = DATABASE_TYPE_RDL_WRITE
    /\ list = <<"file", "absent">>
    /\ list_ptr = 1
    /\ exit = "absent"
    /\ skipped = 2
    /\ status = DATABASE_STATUS_ITERATE

(***************************************************************************)
(* Properties of the checksum texts and of the ownership of the text       *)
(* buffers.                                                                *)
(***************************************************************************)

\* C19: for every binary value of length n >= 0 stored under crc, sha1 or
\* md5, the field is a terminated string of exactly 2n characters, the two
\* upper-case hexadecimal digits of each byte, high nibble first; for
\* n = 0 it is the empty string.  Checked under SpecMat.
C19_HexTextTerminated ==
    Materialized =>
        \A key \in HexKeys :
            LET occ == Occurrences(item.map, key)
            IN  occ # {} =>
                  /\ arr[k][KeyField[key]].ptr # 0
                  /\ arr[k][KeyField[key]].buf
                        = Append(HexText(item.map[Last(occ)].val), NUL)

\* the fields of the entries of the returned list that point to block b
Referrers(b) ==
    {<<i, f>> \in (1..ll_count) \X (StrFields \cup HexFields) :
        arr[i][f].ptr = b}

\* C20: every string or hex buffer allocated while the entries of a
\* successful build were materialized is referenced by exactly one entry
\* field of the returned list, also when a record holds the same recognized
\* string or checksum key more than once.  Checked under SpecBuild.
C20_EveryBufferOwnedByOneField ==
    (Returned /\ result = "list") =>
        \A b \in 1..Len(heap) :
            heap[b].kind = "str" => Cardinality(Referrers(b)) = 1

(***************************************************************************)
(* Properties of ps3_joypad_poll, under SpecPoll.                          *)
(***************************************************************************)

\* C21: after every call of ps3_joypad_poll, for any pad data, the
\* RARCH_MENU_TOGGLE bit of the lifecycle state is set if and only if
\* pad_state[0] has both the L3 and the R3 bit set, and no other lifecycle
\* bit is changed by the poll.  Stated on the steps of the poll: none of
\* them changes another bit, and the step it returns with leaves the
\* toggle bit as the buttons of port 0 say.
C21_MenuToggleIffL3AndR3 ==
    [][/\ lifecycle_state' \ {"RARCH_MENU_TOGGLE"}
            = lifecycle_state \ {"RARCH_MENU_TOGGLE"}
       /\ (port = MAX_PADS /\ port' = 0) =>
             ("RARCH_MENU_TOGGLE" \in lifecycle_state'
                 <=> ("L3" \in pad_state'[0] /\ "R3" \in pad_state'[0]))]_vars

\* C21 witness: a poll has returned with L3 and R3 held on port 0, the
\* toggle bit set and the other lifecycle bit as it was
C21_Witness ==
    /\ port = 0
    /\ pads_connected[0] = 1
    /\ pad_state[0] = {"L3", "R3"}
    /\ pad_state[1] = {"L3", "B"}
    /\ lifecycle_state = {"RARCH_MENU_TOGGLE", "RARCH_QUIT_KEY"}

\* C22: ps3_joypad_poll leaves pad_state[port] and analog_state[port]
\* unchanged for every port that is marked disconnected after the
\* connection handling of the poll; on a disconnect the last buttons of the
\* port are kept, not cleared, so that ps3_joypad_button and the menu
\* toggle test on port 0 keep reading the buttons held when it happened.
C22_DisconnectedPortKeepsState ==
    [][/\ \A p \in Ports :
             pads_connected'[p] = 0 =>
                 /\ pad_state'[p] = pad_state[p]
                 /\ analog_state'[p] = analog_state[p]
                 /\ \A key \in JoyKeys :
                       ps3_joypad_button(p, key)' = ps3_joypad_button(p, key)
       /\ (/\ port = MAX_PADS /\ port' = 0
           /\ pads_connected[0] = 0
           /\ {"L3", "R3"} \subseteq pad_state[0])
             => "RARCH_MENU_TOGGLE" \in lifecycle_state']_vars

\* C22 witness: port 0 was disconnected while L3 and R3 were held; the poll
\* that saw the disconnect has returned, the buttons are still there and
\* the menu toggle is set
C22_Witness ==
    /\ port = 0
    /\ pads_connected[0] = 0
    /\ last_msg = 0
    /\ pad_state[0] = {"L3", "R3"}
    /\ ps3_joypad_button(0, "R3") = {TRUE}
    /\ "RARCH_MENU_TOGGLE" \in lifecycle_state

\* C23: convert_u8_to_s16 maps every 8-bit input into -0x7fff..0x7fff
\* without 16-bit overflow (what it returns is the value of
\* val * 0x0101 - 0x8000 itself for val > 0), is monotonically
\* non-decreasing, and maps 0 to -0x7fff and 255 to 0x7fff; and at every
\* point of every sequence of polls each analog_state entry lies in
\* -0x7fff..0x7fff, so is never -0x8000.
C23_ConvertStaysInRange ==
    /\ \A val \in U8 :
          /\ convert_u8_to_s16(val) \in -32767..32767
          /\ val > 0 => convert_u8_to_s16(val) = val * 257 - 32768
          /\ val < 255 => convert_u8_to_s16(val) <= convert_u8_to_s16(val + 1)
    /\ convert_u8_to_s16(0) = -32767
    /\ convert_u8_to_s16(255) = 32767
    /\ \A p \in Ports : \A si \in 0..1 : \A sj \in 0..1 :
          analog_state[p][si][sj] \in -32767..32767

\* C23 witness: a poll stored the sticks of a pad reporting 0, 255, 128 and
\* 127
C23_Witness ==
    /\ port = 0
    /\ analog_state[0][0][0] = -32767
    /\ analog_state[0][0][1] = 32767
    /\ analog_state[0][1][0] = 128
    /\ analog_state[0][1][1] = -129

====
